---- MODULE Spec2Model ----
(***************************************************************************)
(* A model of the raster-to-footprint pipeline of Gingerbread:             *)
(*   gingerbread/trace.py      _prepare_image, _trace_result_to_polys,     *)
(*                             _trace_bitmap_to_polys, generate_footprint, *)
(*                             trace                                       *)
(*   gingerbread/_geometry.py  bezier_to_points                            *)
(*   gingerbread/_sexpr.py     Symbol.write, footprint, fp_poly, pts, ...  *)
(*   gingerbread/converter.py  Converter.convert_layers                    *)
(*   gingerbread/convert.py    Converter.convert_layers                    *)
(*   gingerbread/trace.py      _path_to_poly_pts                           *)
(*   gingerbread/_sexpr.py     escape_string                               *)
(*   affinity2kicad/trace.py   _trace_bitmap_to_polys                      *)
(*   potracecffi/__init__.py   curve_start_point, iter_curve, trace        *)
(*                                                                         *)
(* Geometry is modelled on a grid of unit cells: the region a closed       *)
(* contour encloses is a set of cells, its area the number of cells, and   *)
(* gdstk's boolean "not" is set difference followed by a split into        *)
(* edge-connected pieces, one polygon per piece.                           *)
(***************************************************************************)
EXTENDS Integers, Sequences, FiniteSets, TLC

(***************************************************************************)
(* Bounds of the model.                                                    *)
(***************************************************************************)
GridW == 4
GridH == 3
MaxPaths == 3
MaxW == 2
MaxH == 2
MaxSample == 1
MaxCoord == 2
MaxDeltaQ == 4
TScale == 8

VARIABLES
    trace_result,     \* the tracer's path list, in emission order
    idx,              \* paths consumed by the first loop
    polys_and_holes,  \* list of [body, hole, hole, ...] lists
    gi,               \* groups consumed by the second loop
    polys,            \* the output list
    asm_pc,           \* "idle" | "collect" | "subtract" | "done" | "error"
    asm_err,          \* the exception raised, "none" if none
    boolCalls,        \* number of gdstk.boolean invocations
    image,            \* image_array before thresholding: [w, h, px]
    invert,
    threshold,
    bitmap,           \* what _prepare_image returned, NoBitmap before
    trace_pc,         \* "idle" | "prepare" | "trace_bitmap" | "traced"
    trace_err,        \* the exception raised by trace(), "none" if none
    tracerCalls,      \* number of potracecffi.trace invocations
    bz_ctl,           \* the control points <<p1, p2, p3, p4>>
    bz_delta,         \* delta, in units of 1/DeltaDen
    bz_k,             \* index of the next element of np.arange
    bz_out,           \* what the generator has yielded so far
    bz_pc,            \* "idle" | "start" | "loop" | "done" | "error"
    bz_err,           \* the exception raised, "none" if none
    fp_shape,         \* bitmap.shape as [w, h]
    fp_center,        \* the center flag of _trace_bitmap_to_polys
    fp_paths,         \* the traced paths' points, in pixel space
    fp_polys,         \* the polygons' points, as generate_footprint gets them
    fp_dpi,
    fp_layer,
    fp_position,
    fp_tick,          \* the clock of uuid1 when generate_footprint is called
    fp_pts,           \* the points handed to fp_poly, per polygon
    fp_text,          \* what generate_footprint returned
    fp_pc,            \* "idle" | "bitmap" | "polys" | "done"
    fp_err,           \* the exception generate_footprint raised, "none" if none
    cv_impl,          \* which convert_layers runs: "pool" | "loop"
    cv_worker,        \* per layer: "pending" or how its conversion ended
    cv_reaped,        \* layers whose result the batch has consumed
    cv_pcb,           \* the literals added to the PCB, in order
    cv_results,       \* per layer: the status the batch reports
    cv_pc,            \* "idle" | "running" | "returned" | "raised"
    cv_err,           \* the exception convert_layers raised, "none" if none
    pp_curve,         \* the path's curve: its segments [tag, c0, c1, c2]
    pp_delta,         \* bezier_resolution, in units of 1/DeltaDen
    pp_last,          \* the variable last of _path_to_poly_pts
    pp_n,             \* segments consumed by the loop
    pp_out,           \* what the generator has yielded so far
    pp_calls,         \* the control points of each call of bezier_to_points
    pp_pc,            \* "idle" | "start" | "walk" | "done" | "error"
    pp_err,           \* the exception raised, "none" if none
    cc_svg,           \* per layer: the text of <layer>.svg in the cache, 0 if absent
    cc_fp,            \* per layer: the SVG text <layer>.kicad_mod was generated from
    cc_doc,           \* per layer: the layer's SVG text in this run, 0 if not found
    cc_cache,         \* the cache flag of this run
    cc_li,            \* layers consumed by the loop of this run
    cc_run,           \* runs started so far
    cc_pcb,           \* the literals this run added to the PCB
    cc_allcache,      \* every run so far had the cache enabled
    cc_pc,            \* "idle" | "between" | "loop"
    es_s,             \* the string given to escape_string, as its characters
    es_i,             \* characters consumed by the loop
    es_out,           \* what has been written to out, one element per write
    es_pc,            \* "idle" | "open" | "loop" | "done"
    pt_args,          \* the arguments of potracecffi.trace
    pt_params,        \* params: "NULL", or the fields of the parameter block
    pt_param_frees,   \* calls of potrace_param_free on an allocated block
    pt_bm,            \* bm: "NULL" | "new" | "packed" | "unpacked"
    pt_bm_frees,      \* calls of potracecffi_free_bitmap_data on a bitmap
    pt_state,         \* the potrace state: "none" | "live" | "gc" | "freed"
    pt_status,        \* state.status, -1 before potrace_trace
    pt_pc,            \* "idle" | "params" | "pack" | "trace" | "check" | "finally" | ...
    pt_err            \* the exception raised, "none" if none

asmVars == <<trace_result, idx, polys_and_holes, gi, polys, asm_pc, asm_err, boolCalls>>

thrVars == <<image, invert, threshold, bitmap, trace_pc, trace_err, tracerCalls>>

bezVars == <<bz_ctl, bz_delta, bz_k, bz_out, bz_pc, bz_err>>

fpVars ==
    <<fp_shape, fp_center, fp_paths, fp_polys, fp_dpi, fp_layer, fp_position,
      fp_tick, fp_pts, fp_text, fp_pc, fp_err>>

cvVars == <<cv_impl, cv_worker, cv_reaped, cv_pcb, cv_results, cv_pc, cv_err>>

ppVars == <<pp_curve, pp_delta, pp_last, pp_n, pp_out, pp_calls, pp_pc, pp_err>>

ccVars == <<cc_svg, cc_fp, cc_doc, cc_cache, cc_li, cc_run, cc_pcb, cc_allcache, cc_pc>>

esVars == <<es_s, es_i, es_out, es_pc>>

ptVars ==
    <<pt_args, pt_params, pt_param_frees, pt_bm, pt_bm_frees, pt_state, pt_status,
      pt_pc, pt_err>>

vars == <<asmVars, thrVars, bezVars, fpVars, cvVars, ppVars, ccVars, esVars, ptVars>>

(***************************************************************************)
(* Each function is checked on its own: a specification starts one of them *)
(* and leaves the state of the others idle.                                *)
(***************************************************************************)
NoBitmap == [w |-> 0, h |-> 0, px |-> "none"]

IdlePath ==
    /\ pp_curve = <<>>
    /\ pp_delta = 0
    /\ pp_last = <<>>
    /\ pp_n = 0
    /\ pp_out = <<>>
    /\ pp_calls = <<>>
    /\ pp_pc = "idle"
    /\ pp_err = "none"

IdleCache ==
    /\ cc_svg = <<>>
    /\ cc_fp = <<>>
    /\ cc_doc = <<>>
    /\ cc_cache = FALSE
    /\ cc_li = 0
    /\ cc_run = 0
    /\ cc_pcb = <<>>
    /\ cc_allcache = TRUE
    /\ cc_pc = "idle"

IdleEscape ==
    /\ es_s = <<>>
    /\ es_i = 0
    /\ es_out = <<>>
    /\ es_pc = "idle"

IdlePotrace ==
    /\ pt_args = <<>>
    /\ pt_params = "NULL"
    /\ pt_param_frees = 0
    /\ pt_bm = "NULL"
    /\ pt_bm_frees = 0
    /\ pt_state = "none"
    /\ pt_status = -1
    /\ pt_pc = "idle"
    /\ pt_err = "none"

IdleFootprint ==
    /\ fp_shape = [w |-> 0, h |-> 0]
    /\ fp_center = FALSE
    /\ fp_paths = <<>>
    /\ fp_polys = <<>>
    /\ fp_dpi = 0
    /\ fp_layer = ""
    /\ fp_position = <<>>
    /\ fp_tick = 0
    /\ fp_pts = <<>>
    /\ fp_text = <<>>
    /\ fp_pc = "idle"
    /\ fp_err = "none"

IdleConvert ==
    /\ cv_impl = "none"
    /\ cv_worker = <<>>
    /\ cv_reaped = {}
    /\ cv_pcb = <<>>
    /\ cv_results = <<>>
    /\ cv_pc = "idle"
    /\ cv_err = "none"

IdleThreshold ==
    /\ image = NoBitmap
    /\ invert = FALSE
    /\ threshold = 0
    /\ bitmap = NoBitmap
    /\ trace_pc = "idle"
    /\ trace_err = "none"
    /\ tracerCalls = 0

IdleAssemble ==
    /\ trace_result = <<>>
    /\ idx = 0
    /\ polys_and_holes = <<>>
    /\ gi = 0
    /\ polys = <<>>
    /\ asm_pc = "idle"
    /\ asm_err = "none"
    /\ boolCalls = 0

IdleBezier ==
    /\ bz_ctl = <<>>
    /\ bz_delta = 0
    /\ bz_k = 0
    /\ bz_out = <<>>
    /\ bz_pc = "idle"
    /\ bz_err = "none"

(***************************************************************************)
(* Cell geometry.                                                          *)
(***************************************************************************)
Cells == (1..GridW) \X (1..GridH)

Rect(x1, x2, y1, y2) == {c \in Cells : c[1] \in x1..x2 /\ c[2] \in y1..y2}

\* Outer boundaries: rectangles of full height, anchored at the left edge.
BodyShapes == {Rect(1, x, 1, GridH) : x \in 1..GridW}

\* Holes: a single cell away from the grid's border, or a full-height column
\* (which cuts a body in two, trims its edge, or covers it).
HoleShapes ==
    {Rect(x, x, y, y) : x \in 2..(GridW - 1), y \in 2..(GridH - 1)}
        \cup {Rect(x, x, 1, GridH) : x \in 1..GridW}

\* path.sign is ord("+") or ord("-").
Paths ==
    [sign : {"+"}, region : BodyShapes] \cup [sign : {"-"}, region : HoleShapes]

SeqsUpTo(S, n) == UNION {[1..k -> S] : k \in 0..n}

Adjacent(a, b) ==
    \/ a[1] = b[1] /\ (a[2] = b[2] + 1 \/ b[2] = a[2] + 1)
    \/ a[2] = b[2] /\ (a[1] = b[1] + 1 \/ b[1] = a[1] + 1)

RECURSIVE Grow(_, _)
Grow(F, S) ==
    LET N == {c \in S \ F : \E f \in F : Adjacent(f, c)}
    IN  IF N = {} THEN F ELSE Grow(F \cup N, S)

\* The edge-connected pieces of a region.
Components(S) == {Grow({c}, S) : c \in S}

Orderings(S) ==
    {s \in [1..Cardinality(S) -> S] : \A i, j \in DOMAIN s : i # j => s[i] # s[j]}

RECURSIVE UnionOf(_)
UnionOf(rs) == IF rs = <<>> THEN {} ELSE Head(rs) \cup UnionOf(Tail(rs))

Regions(ps) == [i \in DOMAIN ps |-> ps[i].region]

\* gdstk.Polygon(list(pts)) of the path at position i: the region the flattened
\* contour encloses; src remembers which path the object was built from.
MakePolygon(path, i) == [region |-> path.region, src |-> i]

\* Faulty variant: only the first hole is subtracted.
GdstkBooleanNotFirstHole(poly, holes) ==
    LET rest == poly.region \ Head(holes).region
    IN  {[i \in DOMAIN o |-> [region |-> o[i], src |-> poly.src]] :
            o \in Orderings(Components(rest))}

\* gdstk.boolean(poly, holes, "not"): the pieces of poly minus all the holes, as
\* new polygons, in an order the library chooses.
GdstkBooleanNot(poly, holes) ==
    LET rest == poly.region \ UnionOf(Regions(holes))
    IN  {[i \in DOMAIN o |-> [region |-> o[i], src |-> poly.src]] :
            o \in Orderings(Components(rest))}

(***************************************************************************)
(* bezier_to_points                                                        *)
(*                                                                         *)
(* Control points have integer coordinates and delta is bz_delta/DeltaDen. *)
(* dd = 6*sqrt(max(dd0, dd1)) is kept as its square, and e2 as the square  *)
(* it has, a fraction of integers, so that the comparisons of the code and *)
(* the length of np.arange are decided exactly.  The parameter t of a      *)
(* curve point is rounded down to a multiple of 1/TScale and the point is  *)
(* then evaluated exactly; every point is held in units of 1/TScale^3.     *)
(***************************************************************************)
DeltaDen == 4

Coords == 0..MaxCoord

Points == Coords \X Coords

Sq(x) == x * x

Cube(x) == x * x * x

Max(a, b) == IF a >= b THEN a ELSE b

\* math.pow(a[0] - 2 * b[0] + c[0], 2) + math.pow(a[1] - 2 * b[1] + c[1], 2)
SecondDiffSq(a, b, c) ==
    Sq(a[1] - 2 * b[1] + c[1]) + Sq(a[2] - 2 * b[2] + c[2])

\* Faulty variant: dd taken as math.sqrt(max(dd0, dd1)), without the factor 6.
DDSqNoSix(ctl) ==
    Max(SecondDiffSq(ctl[1], ctl[2], ctl[3]), SecondDiffSq(ctl[2], ctl[3], ctl[4]))

\* dd * dd, for dd = 6 * math.sqrt(max(dd0, dd1))
DDSq(ctl) ==
    36 * Max(SecondDiffSq(ctl[1], ctl[2], ctl[3]), SecondDiffSq(ctl[2], ctl[3], ctl[4]))

\* 8 * delta <= dd, both sides being non-negative
EightDeltaAtMostDD(ctl, q) == Sq(8 * q) <= DDSq(ctl) * Sq(DeltaDen)

\* e2 * e2, for e2 = 8 * delta / dd if 8 * delta <= dd else 1; the division
\* is by zero when dd = 0.
E2Sq(ctl, q) ==
    IF EightDeltaAtMostDD(ctl, q)
    THEN [num |-> Sq(8 * q), den |-> DDSq(ctl) * Sq(DeltaDen)]
    ELSE [num |-> 1, den |-> 1]

\* The division 8 * delta / dd is evaluated with dd = 0.
DividesByZero(ctl, q) == EightDeltaAtMostDD(ctl, q) /\ DDSq(ctl) = 0

\* interval = math.sqrt(e2) is zero.
ZeroInterval(ctl, q) == ~DividesByZero(ctl, q) /\ E2Sq(ctl, q).num = 0

\* len(np.arange(0, 1, interval)) = ceil(1 / interval): the least n with
\* n * interval >= 1, that is n^4 * e2^2 >= 1.
RECURSIVE ArangeLenFrom(_, _)
ArangeLenFrom(e, n) ==
    IF Sq(Sq(n)) * e.num >= e.den THEN n ELSE ArangeLenFrom(e, n + 1)

ArangeLen(ctl, q) == ArangeLenFrom(E2Sq(ctl, q), 1)

\* t = k * interval, rounded down to a multiple of 1/TScale: the largest u
\* with (u / TScale)^4 <= k^4 * e2^2.
ArangeAt(ctl, q, k) ==
    LET e == E2Sq(ctl, q)
        fits(u) == Sq(Sq(u)) * e.den <= Sq(Sq(k)) * e.num * Sq(Sq(TScale))
    IN  CHOOSE u \in 0..TScale :
            fits(u) /\ \A v \in (u + 1)..TScale : ~fits(v)

\* One coordinate of the Bernstein form at t = u / TScale, times TScale^3.
Bernstein(a, b, c, d, u) ==
    a * Cube(TScale - u)
        + 3 * b * Sq(TScale - u) * u
        + 3 * c * (TScale - u) * Sq(u)
        + d * Cube(u)

\* (x, y) of the loop body.
CurvePoint(ctl, u) ==
    <<Bernstein(ctl[1][1], ctl[2][1], ctl[3][1], ctl[4][1], u),
      Bernstein(ctl[1][2], ctl[2][2], ctl[3][2], ctl[4][2], u)>>

\* A given point in the units of the emitted points.
Exact(p) == <<p[1] * Cube(TScale), p[2] * Cube(TScale)>>

InitBezier ==
    /\ bz_ctl \in Points \X Points \X Points \X Points
    /\ bz_delta \in 0..MaxDeltaQ
    /\ bz_k = 0
    /\ bz_out = <<>>
    /\ bz_pc = "start"
    /\ bz_err = "none"
    /\ IdleAssemble
    /\ IdleThreshold
    /\ IdleFootprint
    /\ IdleConvert
    /\ IdlePath
    /\ IdleCache
    /\ IdleEscape
    /\ IdlePotrace

\* The code before the loop, up to the call of np.arange.
BezierSetup ==
    /\ bz_pc = "start"
    /\ ~DividesByZero(bz_ctl, bz_delta)
    /\ ~ZeroInterval(bz_ctl, bz_delta)
    /\ bz_pc' = "loop"
    /\ UNCHANGED <<bz_ctl, bz_delta, bz_k, bz_out, bz_err, asmVars, thrVars, fpVars, cvVars,
                   ppVars, ccVars, esVars, ptVars>>

\* 8 * delta / dd with dd = 0 (delta = 0 and dd = 0).
BezierDivisionRaises ==
    /\ bz_pc = "start"
    /\ DividesByZero(bz_ctl, bz_delta)
    /\ bz_pc' = "error"
    /\ bz_err' = "ZeroDivisionError"
    /\ UNCHANGED <<bz_ctl, bz_delta, bz_k, bz_out, asmVars, thrVars, fpVars, cvVars, ppVars,
                   ccVars, esVars, ptVars>>

\* np.arange(0, 1, 0) (delta = 0 and dd > 0) raises; which exception depends
\* on the version of the library.
BezierArangeRaises ==
    /\ bz_pc = "start"
    /\ ZeroInterval(bz_ctl, bz_delta)
    /\ bz_pc' = "error"
    /\ bz_err' \in {"ZeroDivisionError", "ValueError"}
    /\ UNCHANGED <<bz_ctl, bz_delta, bz_k, bz_out, asmVars, thrVars, fpVars, cvVars, ppVars,
                   ccVars, esVars, ptVars>>

\* One iteration of the loop: yield (x, y).
YieldCurvePoint ==
    /\ bz_pc = "loop"
    /\ bz_k < ArangeLen(bz_ctl, bz_delta)
    /\ bz_out' = Append(bz_out,
                        [pt |-> CurvePoint(bz_ctl, ArangeAt(bz_ctl, bz_delta, bz_k)),
                         by |-> "loop"])
    /\ bz_k' = bz_k + 1
    /\ UNCHANGED <<bz_ctl, bz_delta, bz_pc, bz_err, asmVars, thrVars, fpVars, cvVars,
                   ppVars, ccVars, esVars, ptVars>>

\* Faulty variant: the generator ends without the final yield.
YieldEndMissing ==
    /\ bz_pc = "loop"
    /\ bz_k = ArangeLen(bz_ctl, bz_delta)
    /\ bz_pc' = "done"
    /\ UNCHANGED <<bz_ctl, bz_delta, bz_k, bz_out, bz_err, asmVars, thrVars, fpVars, cvVars,
                   ppVars, ccVars, esVars, ptVars>>

\* The loop is exhausted: yield p4, and the generator ends.
YieldEnd ==
    /\ bz_pc = "loop"
    /\ bz_k = ArangeLen(bz_ctl, bz_delta)
    /\ bz_out' = Append(bz_out, [pt |-> Exact(bz_ctl[4]), by |-> "end"])
    /\ bz_pc' = "done"
    /\ UNCHANGED <<bz_ctl, bz_delta, bz_k, bz_err, asmVars, thrVars, fpVars, cvVars, ppVars,
                   ccVars, esVars, ptVars>>

NextBezier ==
    \/ BezierSetup
    \/ BezierDivisionRaises
    \/ BezierArangeRaises
    \/ YieldCurvePoint
    \/ YieldEnd

SpecBezier == InitBezier /\ [][NextBezier]_vars

(***************************************************************************)
(* _prepare_image, and trace() up to the call of the tracer.               *)
(***************************************************************************)
Samples == 0..MaxSample

Thresholds == (-1)..MaxSample

Pixels(w, h) == (1..h) \X (1..w)

\* The single-channel sample arrays image.numpy() can give, shape (h, w).
Images ==
    UNION {[w : {w}, h : {h}, px : [Pixels(w, h) -> Samples]] :
               w \in 0..MaxW, h \in 0..MaxH}

\* Faulty variant: the comparison is >= instead of >.
ThresholdCellAtOrAbove(sample, thr, inv) ==
    IF sample >= thr THEN inv ELSE ~inv

\* Faulty variant: the two values of np.where are swapped.
ThresholdCellSwapped(sample, thr, inv) ==
    IF sample > thr THEN ~inv ELSE inv

\* Faulty variant: the invert flag is ignored.
ThresholdCellNoInvert(sample, thr, inv) ==
    IF sample > thr THEN FALSE ELSE TRUE

\* One element of np.where(image_array > threshold, invert, not invert).
ThresholdCell(sample, thr, inv) ==
    IF sample > thr THEN inv ELSE ~inv

\* np.where over the whole array: same shape, one boolean per sample.
NpWhere(img, thr, inv) ==
    [w |-> img.w, h |-> img.h,
     px |-> [c \in DOMAIN img.px |-> ThresholdCell(img.px[c], thr, inv)]]

\* The tracer takes the cells that are True as foreground.
Foreground(bm) == {c \in DOMAIN bm.px : bm.px[c]}

InitThreshold ==
    /\ image \in Images
    /\ invert \in BOOLEAN
    /\ threshold \in Thresholds
    /\ bitmap = NoBitmap
    /\ trace_pc = "prepare"
    /\ trace_err = "none"
    /\ tracerCalls = 0
    /\ IdleAssemble
    /\ IdleBezier
    /\ IdleFootprint
    /\ IdleConvert
    /\ IdlePath
    /\ IdleCache
    /\ IdleEscape
    /\ IdlePotrace

\* bitmap = _prepare_image(vips_image, invert=invert, threshold=threshold)
PrepareImage ==
    /\ trace_pc = "prepare"
    /\ bitmap' = NpWhere(image, threshold, invert)
    /\ trace_pc' = "trace_bitmap"
    /\ UNCHANGED <<image, invert, threshold, trace_err, tracerCalls, asmVars, bezVars,
                   fpVars, cvVars, ppVars, ccVars, esVars, ptVars>>

\* _trace_bitmap_to_polys(bitmap, ...) hands the bitmap to the tracer.
CallTracer ==
    /\ trace_pc = "trace_bitmap"
    /\ tracerCalls' = tracerCalls + 1
    /\ trace_pc' = "traced"
    /\ UNCHANGED <<image, invert, threshold, bitmap, trace_err, asmVars, bezVars, fpVars,
                   cvVars, ppVars, ccVars, esVars, ptVars>>

NextThreshold == PrepareImage \/ CallTracer

SpecThreshold == InitThreshold /\ [][NextThreshold]_vars

(***************************************************************************)
(* _trace_result_to_polys                                                  *)
(***************************************************************************)
InitAssemble ==
    /\ trace_result \in SeqsUpTo(Paths, MaxPaths)
    /\ idx = 0
    /\ polys_and_holes = <<>>
    /\ gi = 0
    /\ polys = <<>>
    /\ asm_pc = "collect"
    /\ asm_err = "none"
    /\ boolCalls = 0
    /\ IdleThreshold
    /\ IdleBezier
    /\ IdleFootprint
    /\ IdleConvert
    /\ IdlePath
    /\ IdleCache
    /\ IdleEscape
    /\ IdlePotrace

\* polys_and_holes.append([poly])
PushGroup(groups, poly) == Append(groups, <<poly>>)

\* Faulty variant: the hole goes to the first group instead of the last.
AttachHoleToFirst(groups, poly) ==
    [groups EXCEPT ![1] = Append(@, poly)]

\* polys_and_holes[-1].append(poly)
AttachHole(groups, poly) ==
    [groups EXCEPT ![Len(groups)] = Append(@, poly)]

\* One iteration of the first loop on a "+" path.
CollectBody ==
    /\ asm_pc = "collect"
    /\ idx < Len(trace_result)
    /\ trace_result[idx + 1].sign # "-"
    /\ polys_and_holes' =
           PushGroup(polys_and_holes, MakePolygon(trace_result[idx + 1], idx + 1))
    /\ idx' = idx + 1
    /\ UNCHANGED <<trace_result, gi, polys, asm_pc, asm_err, boolCalls, thrVars, bezVars,
                   fpVars, cvVars, ppVars, ccVars, esVars, ptVars>>

\* One iteration of the first loop on a "-" path with a group to attach it to.
CollectHole ==
    /\ asm_pc = "collect"
    /\ idx < Len(trace_result)
    /\ trace_result[idx + 1].sign = "-"
    /\ polys_and_holes # <<>>
    /\ polys_and_holes' =
           AttachHole(polys_and_holes, MakePolygon(trace_result[idx + 1], idx + 1))
    /\ idx' = idx + 1
    /\ UNCHANGED <<trace_result, gi, polys, asm_pc, asm_err, boolCalls, thrVars, bezVars,
                   fpVars, cvVars, ppVars, ccVars, esVars, ptVars>>

\* Faulty variant: a hole without a group is skipped silently.
CollectHoleDropped ==
    /\ asm_pc = "collect"
    /\ idx < Len(trace_result)
    /\ trace_result[idx + 1].sign = "-"
    /\ polys_and_holes = <<>>
    /\ idx' = idx + 1
    /\ UNCHANGED <<trace_result, polys_and_holes, gi, polys, asm_pc, asm_err, boolCalls,
                   thrVars, bezVars, fpVars, cvVars, ppVars, ccVars, esVars, ptVars>>

\* The exception of polys_and_holes[-1] on an empty list.
EmptyListError == "IndexError"

\* One iteration of the first loop on a "-" path with no group: indexing the
\* empty list raises and the function is left without a result.
CollectHoleNoGroup ==
    /\ asm_pc = "collect"
    /\ idx < Len(trace_result)
    /\ trace_result[idx + 1].sign = "-"
    /\ polys_and_holes = <<>>
    /\ asm_pc' = "error"
    /\ asm_err' = EmptyListError
    /\ UNCHANGED <<trace_result, idx, polys_and_holes, gi, polys, boolCalls, thrVars,
                   bezVars, fpVars, cvVars, ppVars, ccVars, esVars, ptVars>>

\* The first loop is exhausted; polys = [].
StartSubtract ==
    /\ asm_pc = "collect"
    /\ idx = Len(trace_result)
    /\ asm_pc' = "subtract"
    /\ UNCHANGED <<trace_result, idx, polys_and_holes, gi, polys, asm_err, boolCalls,
                   thrVars, bezVars, fpVars, cvVars, ppVars, ccVars, esVars, ptVars>>

\* Faulty variant: new polygons are put in front of the list.
ExtendAtFront(out, results) == results \o out

\* Faulty variant: only the first polygon of a result is kept.
ExtendFirstOnly(out, results) ==
    IF results = <<>> THEN out ELSE Append(out, Head(results))

\* polys.append(poly) / polys.extend(results)
Extend(out, results) == out \o results

\* One iteration of the second loop on a group without holes.
KeepBody ==
    /\ asm_pc = "subtract"
    /\ gi < Len(polys_and_holes)
    /\ Len(polys_and_holes[gi + 1]) = 1
    /\ polys' = Extend(polys, <<polys_and_holes[gi + 1][1]>>)
    /\ gi' = gi + 1
    /\ UNCHANGED <<trace_result, idx, polys_and_holes, asm_pc, asm_err, boolCalls, thrVars,
                   bezVars, fpVars, cvVars, ppVars, ccVars, esVars, ptVars>>

\* One iteration of the second loop on a group with holes.
SubtractHoles ==
    /\ asm_pc = "subtract"
    /\ gi < Len(polys_and_holes)
    /\ Len(polys_and_holes[gi + 1]) > 1
    /\ \E results \in GdstkBooleanNot(Head(polys_and_holes[gi + 1]),
                                      Tail(polys_and_holes[gi + 1])) :
           polys' = Extend(polys, results)
    /\ boolCalls' = boolCalls + 1
    /\ gi' = gi + 1
    /\ UNCHANGED <<trace_result, idx, polys_and_holes, asm_pc, asm_err, thrVars, bezVars,
                   fpVars, cvVars, ppVars, ccVars, esVars, ptVars>>

\* return polys
ReturnPolys ==
    /\ asm_pc = "subtract"
    /\ gi = Len(polys_and_holes)
    /\ asm_pc' = "done"
    /\ UNCHANGED <<trace_result, idx, polys_and_holes, gi, polys, asm_err, boolCalls,
                   thrVars, bezVars, fpVars, cvVars, ppVars, ccVars, esVars, ptVars>>

NextAssemble ==
    \/ CollectBody
    \/ CollectHole
    \/ CollectHoleNoGroup
    \/ StartSubtract
    \/ KeepBody
    \/ SubtractHoles
    \/ ReturnPolys

SpecAssemble == InitAssemble /\ [][NextAssemble]_vars

(***************************************************************************)
(* Properties of the assembler.                                            *)
(***************************************************************************)
RECURSIVE Flatten(_)
Flatten(groups) ==
    IF groups = <<>> THEN <<>> ELSE Head(groups) \o Flatten(Tail(groups))

RECURSIVE TotalArea(_)
TotalArea(ps) ==
    IF ps = <<>> THEN 0 ELSE Cardinality(Head(ps).region) + TotalArea(Tail(ps))

\* The output polygons that came from the body built from path b.
OutputOf(b) == {i \in DOMAIN polys : polys[i].src = b}

OutputRegion(b) == UNION {polys[i].region : i \in OutputOf(b)}

\* The "+" path that most recently precedes path h.
LastBodyBefore(h) ==
    IF \E b \in 1..(h - 1) : trace_result[b].sign = "+"
    THEN CHOOSE b \in 1..(h - 1) :
             /\ trace_result[b].sign = "+"
             /\ \A m \in (b + 1)..(h - 1) : trace_result[m].sign = "-"
    ELSE 0

\* C1: the polygons held by the groups are the consumed paths, in emission
\* order; every hole sits in the group of the most recent "+" path before it
\* and in no other; and once a group is resolved, what is missing from its
\* body is exactly what its own holes cover.
C1_HolesJoinLatestBody ==
    /\ idx \in 0..Len(trace_result)
    /\ LET flat == Flatten(polys_and_holes)
       IN  /\ Len(flat) = idx
           /\ \A i \in 1..idx : flat[i] = MakePolygon(trace_result[i], i)
    /\ \A j \in DOMAIN polys_and_holes :
           LET g == polys_and_holes[j]
           IN  /\ trace_result[g[1].src].sign = "+"
               /\ \A k \in 2..Len(g) :
                      /\ trace_result[g[k].src].sign = "-"
                      /\ LastBodyBefore(g[k].src) = g[1].src
               /\ j <= gi =>
                      OutputRegion(g[1].src) =
                          g[1].region \ UNION {g[k].region : k \in 2..Len(g)}

\* A run that returned with a hole attached to a group that is not the first.
C1_Witness ==
    /\ asm_pc = "done"
    /\ \E j \in DOMAIN polys_and_holes : j > 1 /\ Len(polys_and_holes[j]) > 1

HoleFirst == trace_result # <<>> /\ trace_result[1].sign = "-"

C3_OutputInEmissionOrder ==
    /\ \A i, j \in DOMAIN polys : i < j => polys[i].src <= polys[j].src
    /\ \A i \in DOMAIN polys : trace_result[polys[i].src].sign = "+"
    /\ asm_pc = "done" =>
           \A j \in DOMAIN polys_and_holes :
               LET g == polys_and_holes[j]
               IN  g[1].region \ UNION {g[k].region : k \in 2..Len(g)} # {}
                       => OutputOf(g[1].src) # {}

\* A returned list with the pieces of a split body followed by a later body.
C3_Witness ==
    /\ asm_pc = "done"
    /\ \E i, j, k \in DOMAIN polys :
           /\ i < j /\ j < k
           /\ polys[i].src = polys[j].src
           /\ polys[j].src < polys[k].src

StrictlyInside(hole, body) ==
    \A c \in hole :
        \A dx, dy \in {-1, 0, 1} : <<c[1] + dx, c[2] + dy>> \in body

\* One "+" path followed only by "-" paths strictly inside it, no two of which
\* overlap.
OneBodyInnerHoles ==
    /\ trace_result # <<>>
    /\ trace_result[1].sign = "+"
    /\ \A i \in 2..Len(trace_result) :
           /\ trace_result[i].sign = "-"
           /\ StrictlyInside(trace_result[i].region, trace_result[1].region)
           /\ \A j \in 2..Len(trace_result) :
                  i # j => trace_result[i].region \cap trace_result[j].region = {}

\* C4: for one body with non-overlapping holes strictly inside it, the area of
\* the returned polygons is the body's area minus the holes' areas; without
\* holes the body itself is returned and gdstk.boolean is never called.
C4_AreaIsBodyMinusHoles ==
    (OneBodyInnerHoles /\ asm_pc = "done") =>
        /\ TotalArea(polys) =
               Cardinality(trace_result[1].region)
                   - TotalArea(Tail(trace_result))
        /\ Len(trace_result) = 1 =>
               /\ polys = <<MakePolygon(trace_result[1], 1)>>
               /\ boolCalls = 0

\* A returned run of one body with two holes strictly inside it.
C4_Witness ==
    /\ OneBodyInnerHoles
    /\ asm_pc = "done"
    /\ Len(trace_result) = 3
    /\ boolCalls = 1

\* What is left of group g's body once its holes are removed.
Remainder(g) == g[1].region \ UNION {g[k].region : k \in 2..Len(g)}

\* C5: every piece that the subtraction leaves of a body is one output polygon
\* of its own, none is dropped and none repeated; in particular a body split
\* in two gives exactly two polygons, which do not overlap.
C5_EveryFragmentIsOutput ==
    \A j \in 1..gi :
        LET g == polys_and_holes[j]
            out == OutputOf(g[1].src)
        IN  Len(g) > 1 =>
                /\ {polys[i].region : i \in out} = Components(Remainder(g))
                /\ Cardinality(out) = Cardinality(Components(Remainder(g)))
                /\ \A a, b \in out :
                       a # b => polys[a].region \cap polys[b].region = {}
                /\ Cardinality(Components(Remainder(g))) = 2 =>
                       Cardinality(out) = 2

\* A returned run in which a hole has split a body in two.
C5_Witness ==
    /\ asm_pc = "done"
    /\ \E j \in DOMAIN polys_and_holes :
           /\ Len(polys_and_holes[j]) = 2
           /\ Cardinality(Components(Remainder(polys_and_holes[j]))) = 2
           /\ Cardinality(OutputOf(polys_and_holes[j][1].src)) = 2

(***************************************************************************)
(* Properties of the thresholding.                                         *)
(***************************************************************************)
Prepared == trace_pc # "prepare" /\ trace_pc # "idle"

\* C6: without invert a cell is foreground exactly when its sample is at or
\* under the threshold; with invert exactly when it is strictly above.
C6_ForegroundAtOrUnderThreshold ==
    Prepared =>
        /\ DOMAIN bitmap.px = DOMAIN image.px
        /\ \A c \in DOMAIN image.px :
               /\ ~invert => (c \in Foreground(bitmap) <=> image.px[c] <= threshold)
               /\ invert => (c \in Foreground(bitmap) <=> image.px[c] > threshold)

\* A thresholded image with a sample equal to the threshold and one above it.
C6_Witness ==
    /\ Prepared
    /\ \E c, d \in DOMAIN image.px :
           image.px[c] = threshold /\ image.px[d] > threshold

\* C7 as claimed: a cell is foreground exactly when
\* ((sample > threshold) == invert) is false.
C7_ForegroundIffEqualityFalse ==
    Prepared =>
        \A c \in DOMAIN image.px :
            c \in Foreground(bitmap) <=> ((image.px[c] > threshold) = invert) = FALSE

\* C7 as amended: a cell is foreground exactly when
\* ((sample > threshold) == invert) is true.
C7_ForegroundIffEqualityTrue ==
    Prepared =>
        /\ DOMAIN bitmap.px = DOMAIN image.px
        /\ \A c \in DOMAIN image.px :
               c \in Foreground(bitmap) <=> ((image.px[c] > threshold) = invert) = TRUE

\* A thresholded image with a foreground cell and a background cell.
C7_Witness ==
    /\ Prepared
    /\ \E c, d \in DOMAIN bitmap.px : bitmap.px[c] /\ ~bitmap.px[d]

\* C8: the bitmap of the same image and threshold under the other value of
\* invert has the same shape and every cell flipped, so its foreground is the
\* complement of this bitmap's foreground.
C8_InvertGivesComplement ==
    Prepared =>
        LET other == NpWhere(image, threshold, ~invert)
        IN  /\ other.w = bitmap.w /\ other.h = bitmap.h
            /\ bitmap.w = image.w /\ bitmap.h = image.h
            /\ DOMAIN other.px = DOMAIN bitmap.px
            /\ \A c \in DOMAIN bitmap.px : other.px[c] = ~bitmap.px[c]
            /\ Foreground(other) = Pixels(image.w, image.h) \ Foreground(bitmap)

\* An inverted run on an image that is half under and half over the threshold.
C8_Witness ==
    /\ Prepared
    /\ invert
    /\ \E c, d \in DOMAIN image.px :
           image.px[c] <= threshold /\ image.px[d] > threshold

\* C9 as claimed: an image of zero width or height makes the thresholding fail
\* with InvalidImage, no bitmap is returned and the tracer is never called.
C9_ZeroSizeFailsInvalidImage ==
    ((image.w = 0 \/ image.h = 0) /\ Prepared) =>
        /\ trace_err = "InvalidImage"
        /\ bitmap = NoBitmap
        /\ tracerCalls = 0

(***************************************************************************)
(* Properties of the flattening.                                           *)
(***************************************************************************)
YieldedBy(stmt) == {i \in DOMAIN bz_out : bz_out[i].by = stmt}

\* C10: for delta > 0 the generator raises nothing, yields at most one point
\* per element of np.arange plus one, is never stuck before it has ended (the
\* setup can run, the loop has an iteration or the final statement to run),
\* and ends with p4 itself, yielded by the final statement, which runs once.
C10_LastPointIsP4 ==
    (bz_pc # "idle" /\ bz_delta > 0) =>
        /\ bz_pc \in {"start", "loop", "done"}
        /\ Len(bz_out) <= ArangeLen(bz_ctl, bz_delta) + 1
        /\ bz_pc = "start" =>
               ~DividesByZero(bz_ctl, bz_delta) /\ ~ZeroInterval(bz_ctl, bz_delta)
        /\ bz_pc = "loop" =>
               bz_k = Len(bz_out) /\ bz_k <= ArangeLen(bz_ctl, bz_delta)
        /\ bz_pc # "done" => YieldedBy("end") = {}
        /\ bz_pc = "done" =>
               /\ bz_out # <<>>
               /\ bz_out[Len(bz_out)].pt = Exact(bz_ctl[4])
               /\ YieldedBy("end") = {Len(bz_out)}

\* A finished run that yielded several curve points before p4.
C10_Witness ==
    /\ bz_pc = "done"
    /\ bz_delta > 0
    /\ Len(bz_out) >= 3

(***************************************************************************)
(* Flattening fidelity.                                                    *)
(*                                                                         *)
(* The deviation is measured the way the bound is derived: the curve point *)
(* at parameter t is compared with the point of the chord at the same      *)
(* relative parameter, which is at least as far as the chord itself.  The  *)
(* curve is re-sampled at every multiple of 1/TScale, and only between     *)
(* emitted points whose parameter k * interval is such a multiple, so that *)
(* no rounding of the model enters the comparison.                         *)
(***************************************************************************)
\* The parameter of the k-th yielded point, in units of 1/TScale, when
\* (k - 1) * interval is a multiple of 1/TScale (that multiple is then what
\* ArangeAt rounds to), and -1 when it is not.
ExactParam(k) ==
    IF bz_out[k].by = "end"
    THEN TScale
    ELSE LET e == E2Sq(bz_ctl, bz_delta)
             us == {u \in 0..TScale :
                       Sq(Sq(u)) * e.den = Sq(Sq(k - 1)) * e.num * Sq(Sq(TScale))}
         IN  IF us = {} THEN -1 ELSE CHOOSE u \in us : TRUE

ExactParams == [k \in DOMAIN bz_out |-> ExactParam(k)]

\* Squared distance, times (ub - ua)^2, between the curve point at u and the
\* point of the chord from a (at ua) to b (at ub) at the same parameter.
DeviationSq(a, b, ua, ub, u) ==
    LET p == CurvePoint(bz_ctl, u)
        dx == (ub - ua) * p[1] - ((ub - u) * a[1] + (u - ua) * b[1])
        dy == (ub - ua) * p[2] - ((ub - u) * a[2] + (u - ua) * b[2])
    IN  Sq(dx) + Sq(dy)

\* delta^2 in the units of DeviationSq, rounded down.
DeltaSq(ua, ub) == Sq(bz_delta * Cube(TScale) * (ub - ua)) \div Sq(DeltaDen)

\* The chords between two points of exact parameter.
ExactChords(us) == {k \in 1..(Len(us) - 1) : us[k] >= 0 /\ us[k + 1] >= 0}

\* C11: for delta > 0, once the generator has ended, every re-sampled point
\* of the true curve between two consecutive emitted points lies within delta
\* of the chord joining them.
C11_ChordWithinDelta ==
    (bz_pc = "done" /\ bz_delta > 0) =>
        LET us == ExactParams
        IN  \A k \in ExactChords(us) :
                \A u \in us[k]..us[k + 1] :
                    DeviationSq(bz_out[k].pt, bz_out[k + 1].pt, us[k], us[k + 1], u)
                        <= DeltaSq(us[k], us[k + 1])

\* A finished run with delta > 0 and an interval of 1/2: two chords, and a
\* curve that leaves the first one.
C11_Witness ==
    /\ bz_pc = "done"
    /\ bz_delta > 0
    /\ Len(bz_out) = 3
    /\ ExactChords(ExactParams) = {1, 2}
    /\ bz_out[2].pt = CurvePoint(bz_ctl, ExactParams[2])
    /\ \E u \in ExactParams[1]..ExactParams[2] :
           DeviationSq(bz_out[1].pt, bz_out[2].pt, ExactParams[1], ExactParams[2], u) > 0

(***************************************************************************)
(* _trace_bitmap_to_polys, generate_footprint and the S-expression writer. *)
(*                                                                         *)
(* A pixel coordinate is an integer number of 1/PxDen pixels.  A number    *)
(* handed to the writer is a record: an int (its value is num), or a float *)
(* with a sign of its own, whose magnitude is num/den millionths of a      *)
(* millimetre.  The text is the sequence of its tokens; the single spaces  *)
(* between them follow from the tokens and are left out.                   *)
(***************************************************************************)
FpMaxPolys == 2
FpMaxPts == 4

\* The six decimals of f"{attr:0.6f}".
Micro == 1000000

\* The 25.4 of dpmm = 25.4 / dpi, in tenths.
InchTenths == 254

PxDen == Micro \div 10

DpiSet == {254, 2540}

Layers == {"F.SilkS"}

\* What the clock of uuid1() may read when generate_footprint is called.
Ticks == {1, 2}

\* How far left of the centre a point of a contour may lie, in 1/PxDen pixel.
Eps == {0, 1}

IntNum(n) ==
    [k |-> "int", neg |-> n < 0, num |-> IF n < 0 THEN -n ELSE n, den |-> 1]

FloatNum(neg, num, den) == [k |-> "float", neg |-> neg, num |-> num, den |-> den]

\* position: the default (0, 0), or floats such as pcb.offset holds.
Positions ==
    {<<IntNum(0), IntNum(0)>>,
     <<FloatNum(FALSE, 127 * Micro, 10), FloatNum(TRUE, 0, 1)>>}

\* The points a traced contour is made of: the corners of the bitmap and a
\* point e units left of its centre.
Ring(w, h, e) ==
    <<<<0, 0>>, <<w * PxDen, 0>>, <<w * PxDen, h * PxDen>>, <<0, h * PxDen>>,
      <<(w * PxDen) \div 2 - e, (h * PxDen) \div 2>>>>

\* n consecutive points of the ring, from its s-th.
Arc(ring, s, n) == [j \in 1..n |-> ring[((s + j - 2) % Len(ring)) + 1]]

\* Lists of point lists: the i-th starts one point further along the ring;
\* one of them has a number of points drawn from lens, the others three.
PathLists(w, h, lens) ==
    {[i \in 1..k |-> Arc(Ring(w, h, e), s + i - 1, IF i = odd THEN n ELSE 3)] :
        k \in 0..FpMaxPolys, odd \in 1..FpMaxPolys, n \in lens,
        e \in Eps, s \in 1..Len(Ring(w, h, 0))}

\* Faulty variant: the centring offset whatever the flag.
OffsetAlways(shape, center) ==
    <<-((shape.w * PxDen) \div 2), -((shape.h * PxDen) \div 2)>>

\* offset of _trace_bitmap_to_polys, in units of 1/PxDen pixel.
Offset(shape, center) ==
    IF center
    THEN <<-((shape.w * PxDen) \div 2), -((shape.h * PxDen) \div 2)>>
    ELSE <<0, 0>>

\* pts of _trace_result_to_polys, for a path without holes.
AddOffset(path, offset) ==
    [j \in DOMAIN path |-> <<path[j][1] + offset[1], path[j][2] + offset[2]>>]

\* dpmm = 25.4 / dpi
Dpmm(dpi) == [num |-> InchTenths, den |-> 10 * dpi]

\* pt[0] * dpmm, in millionths of a millimetre; a zero coordinate is +0.0.
TimesDpmm(v, dpmm) ==
    FloatNum(v < 0, (IF v < 0 THEN -v ELSE v) * dpmm.num * (Micro \div PxDen), dpmm.den)

\* What write() puts out, piece by piece.
Tok(k, str, neg, n) == [k |-> k, s |-> str, neg |-> neg, n |-> n]

OpenTok(token) == Tok("open", token, FALSE, 0)

CloseTok == Tok("close", "", FALSE, 0)

\* out.write("\n"); out.write(tab), for tab = "  " * depth
NewLine(depth) == Tok("nl", "", FALSE, depth)

\* A symbol without attributes: its token alone.
BareTok(token) == Tok("bare", token, FALSE, 0)

\* case str(): the string between double quotes.
StrTok(str) == Tok("str", str, FALSE, 0)

\* case _uuid.UUID(): str(attr) between double quotes.
UuidTok(id) == Tok("uuid", "", FALSE, id)

\* a / d rounded to the nearest integer, a tie to the even one.
RoundHalfEven(a, d) ==
    LET q == a \div d
        r == a % d
    IN  IF 2 * r > d \/ (2 * r = d /\ q % 2 = 1) THEN q + 1 ELSE q

\* case float(): f" {attr:0.6f}" prints the sign of the float, then the
\* rounded magnitude.
FloatTok(x) == Tok("float", "", x.neg, RoundHalfEven(x.num, x.den))

\* case _: f" {attr}", here for an int.
IntTok(x) == Tok("int", "", x.neg, x.num)

NumTok(x) == IF x.k = "float" THEN FloatTok(x) ELSE IntTok(x)

RECURSIVE ConcatAll(_)
ConcatAll(ss) == IF ss = <<>> THEN <<>> ELSE Head(ss) \o ConcatAll(Tail(ss))

\* Symbol.write for a symbol with attributes: scalars are the attributes
\* written in place, children the written symbols that have attributes of
\* their own (each starts a line at depth + 1); with children the closing
\* parenthesis goes on a line of its own.
Write(token, scalars, children, depth) ==
    (IF depth > 0 THEN <<NewLine(depth)>> ELSE <<>>)
        \o <<OpenTok(token)>> \o scalars \o children
        \o (IF children = <<>> THEN <<CloseTok>> ELSE <<NewLine(depth), CloseTok>>)

Width(width, depth) == Write("width", <<NumTok(width)>>, <<>>, depth)

\* at(x, y): the angle is None and is dropped.
At(pos, depth) == Write("at", <<NumTok(pos[1]), NumTok(pos[2])>>, <<>>, depth)

Xy(pt, depth) == Write("xy", <<NumTok(pt[1]), NumTok(pt[2])>>, <<>>, depth)

\* pts(*pts): None, which the parent drops, when there is no point.
Pts(pts, depth) ==
    IF pts = <<>>
    THEN <<>>
    ELSE Write("pts", <<>>, ConcatAll([j \in DOMAIN pts |-> Xy(pts[j], depth + 1)]), depth)

\* tstamp(val), val being what uuid1() returned.
Tstamp(val, depth) == Write("tstamp", <<UuidTok(val)>>, <<>>, depth)

\* Faulty variant: the value is written under another token.
TeditAsUuid(val, depth) == Write("uuid", <<UuidTok(val)>>, <<>>, depth)

Tedit(val, depth) == Write("tedit", <<UuidTok(val)>>, <<>>, depth)

\* _layer_or_str(v) for a string
LayerOrStr(v, depth) == Write("layer", <<StrTok(v)>>, <<>>, depth)

\* attr() with its defaults: type is None and is dropped.
Attr(depth) ==
    Write("attr",
          <<BareTok("board_only"), BareTok("exclude_from_pos_files"),
            BareTok("exclude_from_bom")>>,
          <<>>, depth)

Fill(fill, depth) ==
    Write("fill", <<BareTok(IF fill THEN "solid" ELSE "none")>>, <<>>, depth)

\* Faulty variant: fill is written before width.
FpPolyFillFirst(pts, layer, width, fill, val, depth) ==
    Write("fp_poly", <<>>,
          Pts(pts, depth + 1) \o LayerOrStr(layer, depth + 1)
              \o Fill(fill, depth + 1) \o Width(width, depth + 1)
              \o Tstamp(val, depth + 1),
          depth)

\* fp_poly(pts, layer, width, fill): locked is False and is dropped.
FpPoly(pts, layer, width, fill, val, depth) ==
    Write("fp_poly", <<>>,
          Pts(pts, depth + 1) \o LayerOrStr(layer, depth + 1)
              \o Width(width, depth + 1) \o Fill(fill, depth + 1)
              \o Tstamp(val, depth + 1),
          depth)

\* footprint(library_link, *args, layer, at), written at depth 0; val is the
\* value of the first of its two uuid1() calls.
Footprint(library_link, args, layer, at, val) ==
    Write("footprint", <<StrTok(library_link)>>,
          LayerOrStr(layer, 1) \o At(at, 1) \o Attr(1) \o Tstamp(val, 1)
              \o Tedit(val + 1, 1) \o args,
          0)

\* pts of _generate_fp_poly
ScaledPts(poly, dpmm) ==
    [j \in DOMAIN poly |-> <<TimesDpmm(poly[j][1], dpmm), TimesDpmm(poly[j][2], dpmm)>>]

\* Faulty variant: the points are taken last to first.
GenerateFpPolyReversed(poly, layer, dpmm, val) ==
    FpPoly([j \in DOMAIN poly |->
                <<TimesDpmm(poly[Len(poly) + 1 - j][1], dpmm),
                  TimesDpmm(poly[Len(poly) + 1 - j][2], dpmm)>>],
           layer, IntNum(0), TRUE, val, 1)

\* _generate_fp_poly(poly, layer, dpmm), written as an argument of footprint;
\* val is what uuid1() returns in fp_poly.
GenerateFpPoly(poly, layer, dpmm, val) ==
    FpPoly(ScaledPts(poly, dpmm), layer, IntNum(0), TRUE, val, 1)

\* Faulty variant: the whole millimetres of the position are added to every
\* vertex.
GenerateFootprintShifted(plist, dpi, layer, position, t) ==
    LET dx == position[1].num \div (position[1].den * Micro)
        dy == position[2].num \div (position[2].den * Micro)
        moved(poly) == [j \in DOMAIN poly |-> <<poly[j][1] + dx, poly[j][2] + dy>>]
    IN  Footprint("Graphics",
                  ConcatAll([i \in DOMAIN plist |->
                                GenerateFpPoly(moved(plist[i]), layer, Dpmm(dpi), t + i - 1)]),
                  layer, position, t + Len(plist))

\* str(s.footprint(...)) of generate_footprint.  The arguments are evaluated
\* first, so the polygons take the values uuid1() returns from t on, in
\* order, and the footprint the two that follow.
GenerateFootprintText(plist, dpi, layer, position, t) ==
    Footprint("Graphics",
              ConcatAll([i \in DOMAIN plist |->
                            GenerateFpPoly(plist[i], layer, Dpmm(dpi), t + i - 1)]),
              layer, position, t + Len(plist))

Shapes == [w : 1..MaxW, h : 1..MaxH]

\* Polygon lists a caller may hand to generate_footprint: any number of
\* points per polygon.
GivenPolys ==
    UNION {{[i \in DOMAIN ps |-> AddOffset(ps[i], Offset(x[1], x[2]))] :
                ps \in PathLists(x[1].w, x[1].h, 0..FpMaxPts)} :
            x \in Shapes \X BOOLEAN}

\* Either trace() has a bitmap to trace, whose paths have three points or
\* more each, or generate_footprint is called with a list of polygons.
InitFootprint ==
    /\ \/ /\ fp_pc = "bitmap"
          /\ fp_shape \in Shapes
          /\ fp_center \in BOOLEAN
          /\ fp_paths \in PathLists(fp_shape.w, fp_shape.h, 3..FpMaxPts)
          /\ fp_polys = <<>>
       \/ /\ fp_pc = "polys"
          /\ fp_shape = [w |-> 0, h |-> 0]
          /\ fp_center = FALSE
          /\ fp_paths = <<>>
          /\ fp_polys \in GivenPolys
    /\ fp_dpi = 0
    /\ fp_layer = ""
    /\ fp_position = <<>>
    /\ fp_tick = 0
    /\ fp_pts = <<>>
    /\ fp_text = <<>>
    /\ fp_err = "none"
    /\ IdleAssemble
    /\ IdleThreshold
    /\ IdleBezier
    /\ IdleConvert
    /\ IdlePath
    /\ IdleCache
    /\ IdleEscape
    /\ IdlePotrace

\* _trace_bitmap_to_polys, for paths without holes: every polygon is the
\* path's points plus the offset.
TraceBitmapToPolys ==
    /\ fp_pc = "bitmap"
    /\ fp_polys' = [i \in DOMAIN fp_paths |->
                        AddOffset(fp_paths[i], Offset(fp_shape, fp_center))]
    /\ fp_pc' = "polys"
    /\ UNCHANGED <<fp_shape, fp_center, fp_paths, fp_dpi, fp_layer, fp_position, fp_tick,
                   fp_pts, fp_text, fp_err, asmVars, thrVars, bezVars, cvVars, ppVars,
                   ccVars, esVars, ptVars>>

\* generate_footprint(polys, dpi, layer, position): no statement of it, or of
\* what it calls, raises for a list of point lists.
GenerateFootprint ==
    /\ fp_pc = "polys"
    /\ \E dpi \in DpiSet, layer \in Layers, position \in Positions, t \in Ticks :
           /\ fp_dpi' = dpi
           /\ fp_layer' = layer
           /\ fp_position' = position
           /\ fp_tick' = t
           /\ fp_pts' = [i \in DOMAIN fp_polys |-> ScaledPts(fp_polys[i], Dpmm(dpi))]
           /\ fp_text' = GenerateFootprintText(fp_polys, dpi, layer, position, t)
    /\ fp_pc' = "done"
    /\ UNCHANGED <<fp_shape, fp_center, fp_paths, fp_polys, fp_err, asmVars, thrVars,
                   bezVars, cvVars, ppVars, ccVars, esVars, ptVars>>

NextFootprint == TraceBitmapToPolys \/ GenerateFootprint

SpecFootprint == InitFootprint /\ [][NextFootprint]_vars

(***************************************************************************)
(* Properties of the coordinate mapping and of the footprint text.         *)
(***************************************************************************)
\* The value of a number, in units of 1/den.
Signed(x) == IF x.neg THEN -x.num ELSE x.num

\* Twice (x - cx) * dpmm, in units of 1/(10 * dpi) millionths of a
\* millimetre, for a pixel coordinate x and the bitmap's extent along it.
TwiceMapped(x, extent) ==
    (2 * x - (IF fp_center THEN extent * PxDen ELSE 0)) * InchTenths * (Micro \div PxDen)

RECURSIVE Ascending(_)
Ascending(S) ==
    IF S = {}
    THEN <<>>
    ELSE LET m == CHOOSE x \in S : \A y \in S : x <= y
         IN  <<m>> \o Ascending(S \ {m})

\* The indices at which tok stands in text, in increasing order.
Occurrences(text, tok) == Ascending({i \in DOMAIN text : text[i] = tok})

\* The tokens of every fp_poly record, each from its opening up to the line
\* of its closing parenthesis.
PolyRecords(text) ==
    LET starts == Occurrences(text, OpenTok("fp_poly"))
        lines == Occurrences(text, NewLine(1))
        end(i) == CHOOSE e \in DOMAIN lines :
                      lines[e] > i /\ (e = 1 \/ lines[e - 1] < i)
    IN  [i \in DOMAIN starts |-> SubSeq(text, starts[i], lines[end(starts[i])] - 1)]

\* The two numbers of every xy of a record, in the order of the text.
XyOf(rec) ==
    LET at == Occurrences(rec, OpenTok("xy"))
    IN  [j \in DOMAIN at |-> <<rec[at[j] + 1], rec[at[j] + 2]>>]

\* The text without the two numbers of its at record.
WithoutAt(text) ==
    LET i == CHOOSE a \in DOMAIN text : text[a] = OpenTok("at")
    IN  SubSeq(text, 1, i) \o SubSeq(text, i + 3, Len(text))

Vertices(text) ==
    LET recs == PolyRecords(text)
    IN  [i \in DOMAIN recs |-> XyOf(recs[i])]

\* The call of generate_footprint again, with the default position.
AtDefaultPosition ==
    GenerateFootprintText(fp_polys, fp_dpi, fp_layer, <<IntNum(0), IntNum(0)>>, fp_tick)

\* C13: the position is never added to a vertex: the text has a single
\* (at x y), and but for its two numbers the text, the fp_poly vertices
\* included, is the one the call writes with the default position; so two
\* calls that differ only in position differ only there.
C13_PositionOnlyInAt ==
    fp_pc = "done" =>
        /\ Len(Occurrences(fp_text, OpenTok("at"))) = 1
        /\ WithoutAt(fp_text) = WithoutAt(AtDefaultPosition)
        /\ Vertices(fp_text) = [i \in DOMAIN fp_polys |-> XyOf(GenerateFpPoly(fp_polys[i], fp_layer, Dpmm(fp_dpi), 0))]

\* A footprint with vertices, written with another position than the default.
C13_Witness ==
    /\ fp_pc = "done"
    /\ Len(fp_polys) = FpMaxPolys
    /\ Len(Vertices(fp_text)[1]) >= 3
    /\ fp_position # <<IntNum(0), IntNum(0)>>
    /\ AtDefaultPosition # fp_text

\* C14: a polygon list that contains a polygon with fewer than three points
\* makes the call fail with GeometryError, and no footprint text is produced.
C14_ShortPolygonFailsGeometryError ==
    (fp_pc = "done" /\ \E i \in DOMAIN fp_polys : Len(fp_polys[i]) < 3) =>
        fp_err = "GeometryError" /\ fp_text = <<>>

\* The numbers the writer is to put out for the points of a polygon.
ExpectedXy(poly) ==
    [j \in DOMAIN poly |->
        <<FloatTok(TimesDpmm(poly[j][1], Dpmm(fp_dpi))),
          FloatTok(TimesDpmm(poly[j][2], Dpmm(fp_dpi)))>>]

\* C15: the text has exactly one fp_poly record per input polygon, in the
\* order of the list, and the xy of a record are the polygon's points in
\* their order.
C15_OnePolyRecordPerPolygonInOrder ==
    fp_pc = "done" =>
        LET vs == Vertices(fp_text)
        IN  /\ Len(vs) = Len(fp_polys)
            /\ \A i \in DOMAIN fp_polys : vs[i] = ExpectedXy(fp_polys[i])

\* Two polygons that differ, the first one not the same read backwards.
C15_Witness ==
    /\ fp_pc = "done"
    /\ Len(fp_polys) = 2
    /\ Len(fp_polys[1]) >= 3
    /\ ExpectedXy(fp_polys[1]) # ExpectedXy(fp_polys[2])
    /\ ExpectedXy(fp_polys[1])[1] # ExpectedXy(fp_polys[1])[Len(fp_polys[1])]
    /\ Len(Vertices(fp_text)) = 2

\* The text of a float that is -0.000000.
IsNegativeZero(tok) == tok.k = "float" /\ tok.neg /\ tok.n = 0

\* C16: the text never holds -0.000000.
C16_NeverNegativeZero ==
    \A i \in DOMAIN fp_text : ~IsNegativeZero(fp_text[i])

\* C17: with an empty polygon list the call fails with EmptyFootprint and
\* returns no text.
C17_EmptyListFailsEmptyFootprint ==
    (fp_pc = "done" /\ fp_polys = <<>>) =>
        fp_err = "EmptyFootprint" /\ fp_text = <<>>

\* The text with the value of every (tstamp "...") and (tedit "...") masked.
Mask(text) ==
    [i \in DOMAIN text |->
        IF i > 1 /\ text[i].k = "uuid"
                 /\ (text[i - 1] = OpenTok("tstamp") \/ text[i - 1] = OpenTok("tedit"))
        THEN UuidTok(0)
        ELSE text[i]]

\* The call of generate_footprint again, with the clock of uuid1() at its
\* first reading.
AtFirstTick ==
    GenerateFootprintText(fp_polys, fp_dpi, fp_layer, fp_position, CHOOSE t \in Ticks : \A u \in Ticks : t <= u)

\* C18: whatever uuid1() returns, the text is, once the tstamp and tedit
\* values are masked, the one the call writes with the same polygons, layer,
\* dpi and position at the first reading of the clock; so two such calls give
\* the same masked text.
C18_SameTextOnceMasked ==
    fp_pc = "done" => Mask(fp_text) = Mask(AtFirstTick)

\* A footprint with polygons, written at a later reading of the clock.
C18_Witness ==
    /\ fp_pc = "done"
    /\ Len(fp_polys) = FpMaxPolys
    /\ AtFirstTick # fp_text

\* The tokens that open the fields of a record, in the order of the text.
FieldsOf(rec) ==
    LET at == Ascending({a \in DOMAIN rec : rec[a] = NewLine(2) /\ rec[a + 1].k = "open"})
    IN  [j \in DOMAIN at |-> rec[at[j] + 1].s]

\* The first attribute of the field of a record that token opens.
ValueOf(rec, token) ==
    rec[(CHOOSE a \in DOMAIN rec : rec[a] = OpenTok(token) /\ rec[a - 1] = NewLine(2)) + 1]

CvMaxLayers == 3

CvLayers == 1..CvMaxLayers

Range(f) == {f[x] : x \in DOMAIN f}

\* With a footprint file to add to the PCB.
WithFootprint == {"converted", "cached"}

InitConvert ==
    /\ cv_impl \in {"pool", "loop"}
    /\ cv_worker = [l \in CvLayers |-> "pending"]
    /\ cv_reaped = {}
    /\ cv_pcb = <<>>
    /\ cv_results = [l \in CvLayers |-> "..."]
    /\ cv_pc = "running"
    /\ cv_err = "none"
    /\ IdleAssemble
    /\ IdleThreshold
    /\ IdleBezier
    /\ IdleFootprint
    /\ IdlePath
    /\ IdleCache
    /\ IdleEscape
    /\ IdlePotrace

\* convert_layer_thread, in a worker process: it returns (name, None, False)
\* for a layer the document lacks, (name, file, True) for a cached layer,
\* (name, file, False) after a conversion, or it raises.  The pool keeps its
\* workers going until convert_layers has left the with block.
ConvertLayerThread(l) ==
    /\ cv_impl = "pool"
    /\ cv_pc \in {"running", "raised"}
    /\ cv_worker[l] = "pending"
    /\ \E end \in {"empty", "cached", "converted", "raised"} :
           cv_worker' = [cv_worker EXCEPT ![l] = end]
    /\ UNCHANGED <<cv_impl, cv_reaped, cv_pcb, cv_results, cv_pc, cv_err, asmVars, thrVars,
                   bezVars, fpVars, ppVars, ccVars, esVars, ptVars>>

\* The body of the loop over as_completed(futures), for a future that holds
\* a result.
ReapResult(l) ==
    /\ cv_impl = "pool"
    /\ cv_pc = "running"
    /\ l \notin cv_reaped
    /\ cv_worker[l] \in {"empty", "cached", "converted"}
    /\ cv_reaped' = cv_reaped \cup {l}
    /\ cv_pcb' = IF cv_worker[l] \in WithFootprint THEN Append(cv_pcb, l) ELSE cv_pcb
    /\ cv_results' = [cv_results EXCEPT ![l] =
                          IF cv_worker[l] = "converted" THEN "done" ELSE cv_worker[l]]
    /\ UNCHANGED <<cv_impl, cv_worker, cv_pc, cv_err, asmVars, thrVars, bezVars, fpVars,
                   ppVars, ccVars, esVars, ptVars>>

\* future.result() of a future whose call raised: the exception is raised
\* again, in convert_layers, which has no handler.
ReapException(l) ==
    /\ cv_impl = "pool"
    /\ cv_pc = "running"
    /\ l \notin cv_reaped
    /\ cv_worker[l] = "raised"
    /\ cv_pc' = "raised"
    /\ cv_err' = "Exception"
    /\ UNCHANGED <<cv_impl, cv_worker, cv_reaped, cv_pcb, cv_results, asmVars, thrVars,
                   bezVars, fpVars, ppVars, ccVars, esVars, ptVars>>

\* One pass of the loop of convert.py over the next layer, in the order of
\* _GRAPHIC_LAYERS: not found, cached, empty, converted, or an exception.
ConvertLayer ==
    /\ cv_impl = "loop"
    /\ cv_pc = "running"
    /\ cv_reaped # CvLayers
    /\ LET l == CHOOSE x \in CvLayers \ cv_reaped : \A y \in CvLayers \ cv_reaped : x <= y
       IN  \E end \in {"not found", "cached", "empty", "converted", "raised"} :
               /\ cv_worker' = [cv_worker EXCEPT ![l] = end]
               /\ IF end = "raised"
                  THEN /\ cv_pc' = "raised"
                       /\ cv_err' = "Exception"
                       /\ UNCHANGED <<cv_reaped, cv_pcb, cv_results>>
                  ELSE /\ cv_reaped' = cv_reaped \cup {l}
                       /\ cv_pcb' = IF end \in WithFootprint THEN Append(cv_pcb, l) ELSE cv_pcb
                       /\ cv_results' = [cv_results EXCEPT ![l] = end]
                       /\ UNCHANGED <<cv_pc, cv_err>>
    /\ UNCHANGED <<cv_impl, asmVars, thrVars, bezVars, fpVars, ppVars, ccVars, esVars,
                   ptVars>>

\* Every result has been consumed: convert_layers returns.
ConvertLayersReturns ==
    /\ cv_pc = "running"
    /\ cv_reaped = CvLayers
    /\ cv_pc' = "returned"
    /\ UNCHANGED <<cv_impl, cv_worker, cv_reaped, cv_pcb, cv_results, cv_err, asmVars,
                   thrVars, bezVars, fpVars, ppVars, ccVars, esVars, ptVars>>

NextConvert ==
    \/ \E l \in CvLayers : ConvertLayerThread(l)
    \/ \E l \in CvLayers : ReapResult(l)
    \/ \E l \in CvLayers : ReapException(l)
    \/ ConvertLayer
    \/ ConvertLayersReturns

SpecConvert == InitConvert /\ [][NextConvert]_vars

\* C20: when the conversion of one layer of a batch fails, the batch is not
\* aborted, and once it is over the footprint of every layer whose
\* conversion completed has been added to the PCB.
C20_FailureDoesNotAbortBatch ==
    /\ cv_pc # "raised"
    /\ (cv_pc # "running" /\ \A l \in CvLayers : cv_worker[l] # "pending") =>
           \A l \in CvLayers : cv_worker[l] \in WithFootprint => l \in Range(cv_pcb)

(***************************************************************************)
(* _path_to_poly_pts: the walk over one traced contour.  The points it     *)
(* yields are held in the units of the flattener, 1/TScale^3.              *)
(***************************************************************************)
PpMaxSegs == 2

PathPoints == {<<0, 0>>, <<2, 0>>, <<1, 2>>}

\* A corner uses c1 and c2 only; its c0 is whatever the tracer left there.
Unused == <<0, 0>>

\* What iter_curve yields: Curve(tag, c0, c1, c2).
Segments ==
    [tag : {"corner"}, c0 : {Unused}, c1 : PathPoints, c2 : PathPoints]
        \cup [tag : {"curveto"}, c0 : PathPoints, c1 : PathPoints, c2 : PathPoints]

\* The curves of a traced path: at least one segment.
Curves == SeqsUpTo(Segments, PpMaxSegs) \ {<<>>}

\* bezier_resolution: 0 and the default 0.25.
PpDeltas == {0, 1}

\* curve.c[curve.n - 1][2]
CurveStartPoint(curve) == curve[Len(curve)].c2

\* bezier_to_points raises before its first yield.
BezierRaises(ctl, q) == DividesByZero(ctl, q) \/ ZeroInterval(ctl, q)

\* Everything bezier_to_points yields, in order: one point per element of
\* np.arange(0, 1, interval), then p4.
BezierToPoints(ctl, q) ==
    LET n == ArangeLen(ctl, q)
    IN  [k \in 1..(n + 1) |->
            IF k <= n THEN CurvePoint(ctl, ArangeAt(ctl, q, k - 1)) ELSE Exact(ctl[4])]

\* One yielded point, with the segment and the statement that yielded it.
Yielded(pt, seg, by) == [pt |-> pt, seg |-> seg, by |-> by]

InitPath ==
    /\ pp_curve \in Curves
    /\ pp_delta \in PpDeltas
    /\ pp_last = <<>>
    /\ pp_n = 0
    /\ pp_out = <<>>
    /\ pp_calls = <<>>
    /\ pp_pc = "start"
    /\ pp_err = "none"
    /\ IdleAssemble
    /\ IdleThreshold
    /\ IdleBezier
    /\ IdleFootprint
    /\ IdleConvert
    /\ IdleCache
    /\ IdleEscape
    /\ IdlePotrace

\* last = potracecffi.curve_start_point(path.curve); yield last
PathStart ==
    /\ pp_pc = "start"
    /\ pp_last' = CurveStartPoint(pp_curve)
    /\ pp_out' = <<Yielded(Exact(CurveStartPoint(pp_curve)), 0, "start")>>
    /\ pp_pc' = "walk"
    /\ UNCHANGED <<pp_curve, pp_delta, pp_n, pp_calls, pp_err, asmVars, thrVars, bezVars,
                   fpVars, cvVars, ccVars, esVars, ptVars>>

\* Faulty variant: last = segment.c2 is executed for a cubic segment only.
WalkCornerKeepsLast ==
    /\ pp_pc = "walk"
    /\ pp_n < Len(pp_curve)
    /\ pp_curve[pp_n + 1].tag = "corner"
    /\ pp_out' = pp_out \o <<Yielded(Exact(pp_curve[pp_n + 1].c1), pp_n + 1, "corner"),
                             Yielded(Exact(pp_curve[pp_n + 1].c2), pp_n + 1, "corner")>>
    /\ pp_n' = pp_n + 1
    /\ UNCHANGED <<pp_curve, pp_delta, pp_last, pp_calls, pp_pc, pp_err, asmVars, thrVars,
                   bezVars, fpVars, cvVars, ccVars, esVars, ptVars>>

\* One iteration on a CORNER segment: yield c1, yield c2, last = c2.
WalkCorner ==
    /\ pp_pc = "walk"
    /\ pp_n < Len(pp_curve)
    /\ pp_curve[pp_n + 1].tag = "corner"
    /\ pp_out' = pp_out \o <<Yielded(Exact(pp_curve[pp_n + 1].c1), pp_n + 1, "corner"),
                             Yielded(Exact(pp_curve[pp_n + 1].c2), pp_n + 1, "corner")>>
    /\ pp_last' = pp_curve[pp_n + 1].c2
    /\ pp_n' = pp_n + 1
    /\ UNCHANGED <<pp_curve, pp_delta, pp_calls, pp_pc, pp_err, asmVars, thrVars, bezVars,
                   fpVars, cvVars, ccVars, esVars, ptVars>>

\* The arguments of bezier_to_points(last, segment.c0, segment.c1, segment.c2).
CallOf(last, segment) == <<last, segment.c0, segment.c1, segment.c2>>

\* One iteration on a CURVETO segment: yield from bezier_to_points(...),
\* last = c2.
WalkCurve ==
    /\ pp_pc = "walk"
    /\ pp_n < Len(pp_curve)
    /\ pp_curve[pp_n + 1].tag = "curveto"
    /\ LET ctl == CallOf(pp_last, pp_curve[pp_n + 1])
       IN  /\ ~BezierRaises(ctl, pp_delta)
           /\ pp_calls' = Append(pp_calls, [seg |-> pp_n + 1, ctl |-> ctl])
           /\ pp_out' = pp_out \o
                  [k \in DOMAIN BezierToPoints(ctl, pp_delta) |->
                      Yielded(BezierToPoints(ctl, pp_delta)[k], pp_n + 1, "bezier")]
    /\ pp_last' = pp_curve[pp_n + 1].c2
    /\ pp_n' = pp_n + 1
    /\ UNCHANGED <<pp_curve, pp_delta, pp_pc, pp_err, asmVars, thrVars, bezVars, fpVars,
                   cvVars, ccVars, esVars, ptVars>>

\* One iteration on a CURVETO segment for which bezier_to_points raises: the
\* exception leaves the generator.
WalkCurveRaises ==
    /\ pp_pc = "walk"
    /\ pp_n < Len(pp_curve)
    /\ pp_curve[pp_n + 1].tag = "curveto"
    /\ LET ctl == CallOf(pp_last, pp_curve[pp_n + 1])
       IN  /\ BezierRaises(ctl, pp_delta)
           /\ pp_calls' = Append(pp_calls, [seg |-> pp_n + 1, ctl |-> ctl])
           /\ pp_err' \in IF DividesByZero(ctl, pp_delta)
                          THEN {"ZeroDivisionError"}
                          ELSE {"ZeroDivisionError", "ValueError"}
    /\ pp_pc' = "error"
    /\ UNCHANGED <<pp_curve, pp_delta, pp_last, pp_n, pp_out, asmVars, thrVars, bezVars,
                   fpVars, cvVars, ccVars, esVars, ptVars>>

\* The loop over iter_curve is exhausted: the generator ends.
PathEnd ==
    /\ pp_pc = "walk"
    /\ pp_n = Len(pp_curve)
    /\ pp_pc' = "done"
    /\ UNCHANGED <<pp_curve, pp_delta, pp_last, pp_n, pp_out, pp_calls, pp_err, asmVars,
                   thrVars, bezVars, fpVars, cvVars, ccVars, esVars, ptVars>>

NextPath ==
    \/ PathStart
    \/ WalkCorner
    \/ WalkCurve
    \/ WalkCurveRaises
    \/ PathEnd

SpecPath == InitPath /\ [][NextPath]_vars

(***************************************************************************)
(* Properties of the walk over a contour.                                  *)
(***************************************************************************)

\* C21: the point sequence of a walked contour, which is what the polygon
\* constructor receives, has at least 3 points, and its last point differs
\* from its first point.
C21_ThreePointsNoClosingDuplicate ==
    pp_pc = "done" =>
        /\ Len(pp_out) >= 3
        /\ pp_out[Len(pp_out)].pt # pp_out[1].pt

(***************************************************************************)
(* Further properties of bezier_to_points.                                 *)
(***************************************************************************)

\* C22: when dd = 0 (both second differences vanish) the generator ends
\* having emitted exactly one point, p4, whatever delta >= 0 is.
C22_DegenerateEmitsOnlyP4 ==
    (bz_pc \in {"done", "error"} /\ DDSq(bz_ctl) = 0) =>
        /\ bz_pc = "done"
        /\ bz_out = <<[pt |-> Exact(bz_ctl[4]), by |-> "end"]>>

\* C23: no point emitted by bezier_to_points is the sample at t = 0, the
\* curve's start point p1.
C23_StartPointNotEmitted ==
    \A k \in DOMAIN bz_out :
        bz_out[k].by = "loop" =>
            /\ ArangeAt(bz_ctl, bz_delta, k - 1) # 0
            /\ bz_out[k].pt # Exact(bz_ctl[1])

(***************************************************************************)
(* Further properties of the assembler.                                    *)
(***************************************************************************)

\* The subtraction of group g's holes leaves more than one piece.
Fragmented(g) == Len(g) > 1 /\ Cardinality(Components(Remainder(g))) > 1

\* C24: when the subtraction of a group returns more than one polygon, the
\* assembler goes on to call the boolean engine again, for the union of the
\* first two fragments, before the group is done with.
C24_UnionAttemptedOnFragments ==
    [][(/\ asm_pc = "subtract"
        /\ gi < Len(polys_and_holes)
        /\ gi' = gi + 1
        /\ Fragmented(polys_and_holes[gi + 1]))
           => boolCalls' >= boolCalls + 2]_vars

(***************************************************************************)
(* Further properties of the walk over a contour.                          *)
(***************************************************************************)

\* The end point of the segment before segment n, the contour's start point
\* for the first one.
PreviousEnd(n) ==
    IF n = 1 THEN CurveStartPoint(pp_curve) ELSE pp_curve[n - 1].c2

\* C25: the start point p1 of every call of the flattener is the end point
\* c2 of the segment just before, corner or cubic, and the contour's start
\* point (the end point of the last segment) for the first segment.
C25_P1IsPreviousEnd ==
    /\ \A i \in DOMAIN pp_calls :
           /\ pp_curve[pp_calls[i].seg].tag = "curveto"
           /\ pp_calls[i].ctl[1] = PreviousEnd(pp_calls[i].seg)
           /\ pp_calls[i].ctl[1] \in PathPoints
    /\ \A n \in 1..pp_n :
           pp_curve[n].tag = "curveto" => \E i \in DOMAIN pp_calls : pp_calls[i].seg = n

\* A finished walk over a corner that ends away from the contour's start
\* point, followed by a cubic.
C25_Witness ==
    /\ pp_pc = "done"
    /\ Len(pp_curve) = 2
    /\ pp_curve[1].tag = "corner"
    /\ pp_curve[1].c2 # CurveStartPoint(pp_curve)
    /\ Len(pp_calls) = 1
    /\ pp_calls[1].seg = 2
    /\ pp_calls[1].ctl[1] = pp_curve[1].c2

(***************************************************************************)
(* Converter.convert_layers of convert.py over several runs of the program *)
(* on the same cache directory.  An SVG text is a number, and a footprint  *)
(* file is held as the SVG text it was generated from.                     *)
(***************************************************************************)
CcMaxRuns == 3
CcArtworks == 2

\* The layers of _GRAPHIC_LAYERS that are followed.
CcLayers == <<"F.SilkS", "B.SilkS">>

\* A file that does not exist, and a layer that was not found.
Absent == 0

\* doc.tostring() of a layer that was found.
SvgTexts == 1..CcArtworks

\* The artwork whose trace has no polygon.
TracesToNothing(text) == text = 1

\* compare_file_to_string(svg_filename, svg_text): the file is there and
\* holds that text.
CompareFileToString(file, string) == file # Absent /\ file = string

\* cache and footprint_filename.exists() and compare_file_to_string(...)
IsCached(l) ==
    cc_cache /\ cc_fp[l] # Absent /\ CompareFileToString(cc_svg[l], cc_doc[l])

\* self.pcb.add_literal(footprint_filename.read_text())
Literal(l, how) ==
    [layer |-> l, from |-> cc_fp'[l], text |-> cc_doc[l], how |-> how]

InitCache ==
    /\ cc_svg = [l \in DOMAIN CcLayers |-> Absent]
    /\ cc_fp = [l \in DOMAIN CcLayers |-> Absent]
    /\ cc_doc = [l \in DOMAIN CcLayers |-> Absent]
    /\ cc_cache = FALSE
    /\ cc_li = 0
    /\ cc_run = 0
    /\ cc_pcb = <<>>
    /\ cc_allcache = TRUE
    /\ cc_pc = "between"
    /\ IdleAssemble
    /\ IdleThreshold
    /\ IdleBezier
    /\ IdleFootprint
    /\ IdleConvert
    /\ IdlePath
    /\ IdleEscape
    /\ IdlePotrace

\* A run of the program: a new document and PCB, the cache directory as the
\* run before left it.
StartRun ==
    /\ cc_pc = "between"
    /\ cc_run < CcMaxRuns
    /\ cc_doc' \in [DOMAIN CcLayers -> {Absent} \cup SvgTexts]
    /\ cc_cache' \in BOOLEAN
    /\ cc_allcache' = (cc_allcache /\ cc_cache')
    /\ cc_li' = 0
    /\ cc_run' = cc_run + 1
    /\ cc_pcb' = <<>>
    /\ cc_pc' = "loop"
    /\ UNCHANGED <<cc_svg, cc_fp, asmVars, thrVars, bezVars, fpVars, cvVars, ppVars, esVars,
                   ptVars>>

\* One iteration: remove_layers finds nothing to keep.
LayerNotFound ==
    /\ cc_pc = "loop"
    /\ cc_li < Len(CcLayers)
    /\ cc_doc[cc_li + 1] = Absent
    /\ cc_li' = cc_li + 1
    /\ UNCHANGED <<cc_svg, cc_fp, cc_doc, cc_cache, cc_run, cc_pcb, cc_allcache, cc_pc,
                   asmVars, thrVars, bezVars, fpVars, cvVars, ppVars, esVars, ptVars>>

\* One iteration: the layer is taken from the cache.
LayerCached ==
    /\ cc_pc = "loop"
    /\ cc_li < Len(CcLayers)
    /\ cc_doc[cc_li + 1] # Absent
    /\ IsCached(cc_li + 1)
    /\ cc_fp' = cc_fp
    /\ cc_pcb' = Append(cc_pcb, Literal(cc_li + 1, "cached"))
    /\ cc_li' = cc_li + 1
    /\ UNCHANGED <<cc_svg, cc_doc, cc_cache, cc_run, cc_allcache, cc_pc, asmVars, thrVars,
                   bezVars, fpVars, cvVars, ppVars, esVars, ptVars>>

\* One iteration: the layer is rendered and traced, and has no polygon.
LayerEmpty ==
    /\ cc_pc = "loop"
    /\ cc_li < Len(CcLayers)
    /\ cc_doc[cc_li + 1] # Absent
    /\ ~IsCached(cc_li + 1)
    /\ TracesToNothing(cc_doc[cc_li + 1])
    /\ cc_svg' = IF cc_cache THEN [cc_svg EXCEPT ![cc_li + 1] = cc_doc[cc_li + 1]]
                             ELSE cc_svg
    /\ cc_li' = cc_li + 1
    /\ UNCHANGED <<cc_fp, cc_doc, cc_cache, cc_run, cc_pcb, cc_allcache, cc_pc, asmVars,
                   thrVars, bezVars, fpVars, cvVars, ppVars, esVars, ptVars>>

\* One iteration: the layer is rendered, traced and written as a footprint.
LayerConverted ==
    /\ cc_pc = "loop"
    /\ cc_li < Len(CcLayers)
    /\ cc_doc[cc_li + 1] # Absent
    /\ ~IsCached(cc_li + 1)
    /\ ~TracesToNothing(cc_doc[cc_li + 1])
    /\ cc_svg' = IF cc_cache THEN [cc_svg EXCEPT ![cc_li + 1] = cc_doc[cc_li + 1]]
                             ELSE cc_svg
    /\ cc_fp' = [cc_fp EXCEPT ![cc_li + 1] = cc_doc[cc_li + 1]]
    /\ cc_pcb' = Append(cc_pcb, Literal(cc_li + 1, "converted"))
    /\ cc_li' = cc_li + 1
    /\ UNCHANGED <<cc_doc, cc_cache, cc_run, cc_allcache, cc_pc, asmVars, thrVars, bezVars,
                   fpVars, cvVars, ppVars, esVars, ptVars>>

\* The loop over _GRAPHIC_LAYERS is exhausted.
EndRun ==
    /\ cc_pc = "loop"
    /\ cc_li = Len(CcLayers)
    /\ cc_pc' = "between"
    /\ UNCHANGED <<cc_svg, cc_fp, cc_doc, cc_cache, cc_li, cc_run, cc_pcb, cc_allcache,
                   asmVars, thrVars, bezVars, fpVars, cvVars, ppVars, esVars, ptVars>>

NextCache ==
    \/ StartRun
    \/ LayerNotFound
    \/ LayerCached
    \/ LayerEmpty
    \/ LayerConverted
    \/ EndRun

SpecCache == InitCache /\ [][NextCache]_vars

\* C26: over runs that all have the cache enabled, the footprint embedded
\* for a layer taken from the cache was generated from the SVG text the layer
\* has in this run.
C26_CachedFootprintIsOfCurrentArtwork ==
    cc_allcache =>
        \A i \in DOMAIN cc_pcb :
            cc_pcb[i].how = "cached" => cc_pcb[i].from = cc_pcb[i].text

(***************************************************************************)
(* _trace_bitmap_to_polys of affinity2kicad/trace.py: one loop, which      *)
(* subtracts each hole from the polygon that is last in the list.          *)
(***************************************************************************)

\* How the loop can end from path i on, with the list out built so far: the
\* list returned, or the exception of polys.pop() on an empty list.
RECURSIVE AffinityLoop(_, _, _)
AffinityLoop(paths, i, out) ==
    IF i > Len(paths)
    THEN {[polys |-> out, err |-> "none"]}
    ELSE IF paths[i].sign # "-"
    THEN AffinityLoop(paths, i + 1, Append(out, MakePolygon(paths[i], i)))
    ELSE IF out = <<>>
    THEN {[polys |-> out, err |-> EmptyListError]}
    ELSE UNION {AffinityLoop(paths, i + 1, SubSeq(out, 1, Len(out) - 1) \o result) :
                   result \in GdstkBooleanNot(out[Len(out)], <<MakePolygon(paths[i], i)>>)}

AffinityTraceBitmapToPolys(paths) == AffinityLoop(paths, 1, <<>>)

\* C27: on every contour sequence the two assemblers agree: what
\* _trace_result_to_polys returns is what the one-hole-at-a-time loop
\* returns, and one raises only when the other does.
C27_BatchEqualsOneAtATime ==
    /\ asm_pc = "done" =>
           /\ \A o \in AffinityTraceBitmapToPolys(trace_result) : o.err = "none"
           /\ \E o \in AffinityTraceBitmapToPolys(trace_result) : o.polys = polys
    /\ asm_pc = "error" =>
           \A o \in AffinityTraceBitmapToPolys(trace_result) : o.err = asm_err

(***************************************************************************)
(* Further properties of the batch over the layers.                        *)
(***************************************************************************)

\* C28: with parallel workers the footprints are added to the PCB in one
\* order, whatever the order in which the workers complete: the order in
\* which the layers were submitted, which is the order the interleaving with
\* in-order completions gives.
C28_AppendOrderIsSubmitOrder ==
    cv_impl = "pool" =>
        \A i, j \in DOMAIN cv_pcb : i < j => cv_pcb[i] < cv_pcb[j]

(***************************************************************************)
(* escape_string of _sexpr.py (sexpr.py has the same text).  A string is   *)
(* the sequence of its characters, and the output the sequence of the      *)
(* texts written, one per out.write.                                       *)
(***************************************************************************)
EsMaxLen == 2

\* The characters with an escape sequence, and one without.
Specials == {"\n", "\r", "{", "/", "\\", "<", ">", ":", "\""}

Chars == Specials \cup {"a"}

\* The text written by the case whose pattern is the character p.
EscapeSequence(p) ==
    CASE p = "\n" -> "\\n"
      [] p = "\r" -> "\\r"
      [] p = "{" -> "{brace}"
      [] p = "/" -> "{slash}"
      [] p = "\\" -> "{backlash}"
      [] p = "<" -> "{lt}"
      [] p = ">" -> "{gt}"
      [] p = ":" -> "{colon}"
      [] p = "\"" -> "{dblqoute}"

\* A literal pattern matches a subject that is equal to it: here the subject
\* is a string and the pattern a string of one character.
Matches(subject, p) == subject = <<p>>

\* The body of the loop for the character c: match s, with the string s as
\* the subject, and out.write(c) in the default case.
MatchWrite(str, c) ==
    IF \E p \in Specials : Matches(str, p)
    THEN EscapeSequence(CHOOSE p \in Specials : Matches(str, p))
    ELSE c

InitEscape ==
    /\ es_s \in SeqsUpTo(Chars, EsMaxLen)
    /\ es_i = 0
    /\ es_out = <<>>
    /\ es_pc = "open"
    /\ IdleAssemble
    /\ IdleThreshold
    /\ IdleBezier
    /\ IdleFootprint
    /\ IdleConvert
    /\ IdlePath
    /\ IdleCache
    /\ IdlePotrace

\* out.write('"')
WriteOpen ==
    /\ es_pc = "open"
    /\ es_out' = Append(es_out, "\"")
    /\ es_pc' = "loop"
    /\ UNCHANGED <<es_s, es_i, asmVars, thrVars, bezVars, fpVars, cvVars, ppVars, ccVars,
                   ptVars>>

\* One iteration of for c in s.
EscapeChar ==
    /\ es_pc = "loop"
    /\ es_i < Len(es_s)
    /\ es_out' = Append(es_out, MatchWrite(es_s, es_s[es_i + 1]))
    /\ es_i' = es_i + 1
    /\ UNCHANGED <<es_s, es_pc, asmVars, thrVars, bezVars, fpVars, cvVars, ppVars, ccVars,
                   ptVars>>

\* The loop is exhausted: out.write('"')
WriteClose ==
    /\ es_pc = "loop"
    /\ es_i = Len(es_s)
    /\ es_out' = Append(es_out, "\"")
    /\ es_pc' = "done"
    /\ UNCHANGED <<es_s, es_i, asmVars, thrVars, bezVars, fpVars, cvVars, ppVars, ccVars,
                   ptVars>>

NextEscape == WriteOpen \/ EscapeChar \/ WriteClose

SpecEscape == InitEscape /\ [][NextEscape]_vars

\* What the claim has written for the character c.
Escaped(c) == IF c \in Specials THEN EscapeSequence(c) ELSE c

\* C29: for a string of any length, what is written is a quote, then for
\* each character in order its escape sequence if it has one and the
\* character itself if not, then a quote; no bare quote lies in between.
C29_EveryCharacterEscaped ==
    es_pc = "done" =>
        /\ Len(es_out) = Len(es_s) + 2
        /\ es_out[1] = "\""
        /\ es_out[Len(es_out)] = "\""
        /\ \A i \in DOMAIN es_s :
               /\ es_out[i + 1] = Escaped(es_s[i])
               /\ es_out[i + 1] # "\""

(***************************************************************************)
(* potracecffi.trace: the native resources it allocates and releases.      *)
(***************************************************************************)
PtMaxTurd == 2

\* TURNPOLICY_BLACK .. TURNPOLICY_RANDOM
TurnPolicies == 0..6

\* The arguments that are stored as integers in the parameter block.
TraceArgs == [turdsize : 0..PtMaxTurd, turnpolicy : TurnPolicies, opticurve : {0, 1}]

InitPotrace ==
    /\ pt_args \in TraceArgs
    /\ pt_params = "NULL"
    /\ pt_param_frees = 0
    /\ pt_bm = "NULL"
    /\ pt_bm_frees = 0
    /\ pt_state = "none"
    /\ pt_status = -1
    /\ pt_pc = "params"
    /\ pt_err = "none"
    /\ IdleAssemble
    /\ IdleThreshold
    /\ IdleBezier
    /\ IdleFootprint
    /\ IdleConvert
    /\ IdlePath
    /\ IdleCache
    /\ IdleEscape

\* params = lib.potrace_param_default(), and the assignments to its fields.
ParamDefault ==
    /\ pt_pc = "params"
    /\ pt_params' = pt_args
    /\ pt_pc' = "pack"
    /\ UNCHANGED <<pt_args, pt_param_frees, pt_bm, pt_bm_frees, pt_state, pt_status, pt_err,
                   asmVars, thrVars, bezVars, fpVars, cvVars, ppVars, ccVars, esVars>>

\* bm = ffi.new(...); result = lib.potracecffi_pack_bitmap_data(bm, ...):
\* the packing succeeds, or it fails and RuntimeError is raised.
PackBitmap ==
    /\ pt_pc = "pack"
    /\ \E result \in {0, 1} :
           IF result # 0
           THEN /\ pt_bm' = "unpacked"
                /\ pt_err' = "RuntimeError"
                /\ pt_pc' = "finally"
           ELSE /\ pt_bm' = "packed"
                /\ pt_err' = pt_err
                /\ pt_pc' = "trace"
    /\ UNCHANGED <<pt_args, pt_params, pt_param_frees, pt_bm_frees, pt_state, pt_status,
                   asmVars, thrVars, bezVars, fpVars, cvVars, ppVars, ccVars, esVars>>

\* state = lib.potrace_trace(params, bm): a new state whose status is
\* POTRACE_STATUS_OK (0) or POTRACE_STATUS_INCOMPLETE (1).
PotraceTrace ==
    /\ pt_pc = "trace"
    /\ pt_state' = "live"
    /\ pt_status' \in {0, 1}
    /\ pt_pc' = "check"
    /\ UNCHANGED <<pt_args, pt_params, pt_param_frees, pt_bm, pt_bm_frees, pt_err,
                   asmVars, thrVars, bezVars, fpVars, cvVars, ppVars, ccVars, esVars>>

\* if state.status != 0: raise RuntimeError("Trace failed")
TraceFailed ==
    /\ pt_pc = "check"
    /\ pt_status # 0
    /\ pt_err' = "RuntimeError"
    /\ pt_pc' = "finally"
    /\ UNCHANGED <<pt_args, pt_params, pt_param_frees, pt_bm, pt_bm_frees, pt_state, pt_status,
                   asmVars, thrVars, bezVars, fpVars, cvVars, ppVars, ccVars, esVars>>

\* return ffi.gc(state, lib.potrace_state_free, ...): the state now belongs
\* to the garbage collector, which frees it with potrace_state_free.
ReturnState ==
    /\ pt_pc = "check"
    /\ pt_status = 0
    /\ pt_state' = "gc"
    /\ pt_pc' = "finally"
    /\ UNCHANGED <<pt_args, pt_params, pt_param_frees, pt_bm, pt_bm_frees, pt_status, pt_err,
                   asmVars, thrVars, bezVars, fpVars, cvVars, ppVars, ccVars, esVars>>

\* finally: lib.potrace_param_free(params); lib.potracecffi_free_bitmap_data(bm),
\* and the function is left by return or by the pending exception.
Finally ==
    /\ pt_pc = "finally"
    /\ pt_params' = "freed"
    /\ pt_param_frees' = pt_param_frees + 1
    /\ pt_bm' = "freed"
    /\ pt_bm_frees' = pt_bm_frees + 1
    /\ pt_pc' = IF pt_err = "none" THEN "returned" ELSE "raised"
    /\ UNCHANGED <<pt_args, pt_state, pt_status, pt_err,
                   asmVars, thrVars, bezVars, fpVars, cvVars, ppVars, ccVars, esVars>>

NextPotrace ==
    \/ ParamDefault
    \/ PackBitmap
    \/ PotraceTrace
    \/ TraceFailed
    \/ ReturnState
    \/ Finally

SpecPotrace == InitPotrace /\ [][NextPotrace]_vars

\* C30: on every way out of trace, the parameter block and the packed bitmap
\* have been freed exactly once, and the potrace state, if one was made, is
\* owned by the garbage collector or has been freed: none is left live with
\* nothing to free it.
C30_EveryResourceReleased ==
    pt_pc \in {"returned", "raised"} =>
        /\ pt_params = "freed" /\ pt_param_frees = 1
        /\ pt_bm = "freed" /\ pt_bm_frees = 1
        /\ pt_state \in {"none", "gc", "freed"}
        /\ pt_pc = "returned" <=> pt_state = "gc"
====
